---- MODULE Spec2Model ----
(***************************************************************************)
(* Model of services/rag-api/app/main.py: the text sanitizer, the chunker, *)
(* the collection bootstrap, the /ingest route and the /chat route.        *)
(*                                                                         *)
(* Strings are sequences of one-character strings over a small alphabet    *)
(* that has one representative of every class of code point the code       *)
(* treats differently:                                                     *)
(*   "q"  an ordinary letter with no canonical composition                 *)
(*   " "  white space (what str.split() splits on)                         *)
(*   "e"  a base letter that composes with the combining mark (U+0065)     *)
(*   "m"  a combining mark of class 230 (U+0301)                           *)
(*   "E"  the precomposed letter (U+00E9), canonically equal to "e","m"    *)
(*   "x"  a lone surrogate (U+D800): a starter that UTF-8 cannot encode    *)
(***************************************************************************)
EXTENDS Integers, Sequences, FiniteSets, TLC

\* ------------------------------------------------------------------ bounds
MaxLen == 4       \* longest input string of sanitize and chunk_text
MaxSize == 2      \* CHUNK_SIZE ranges over 1..MaxSize
MaxOverlap == 1   \* CHUNK_OVERLAP ranges over 0..MaxOverlap
MaxFiles == 2     \* most files under DOCS_DIR
MaxDim == 1       \* the embedding provider's vector length is in 1..MaxDim
MaxHits == 3      \* most hits a search returns (top_k ranges over 0..MaxHits)
MaxScore == 2     \* similarity scores range over 1..MaxScore

Alphabet == {"q", " ", "e", "m", "E", "x"}

RECURSIVE StringsOfLen(_)
StringsOfLen(n) ==
    IF n = 0 THEN {<<>>}
    ELSE {Append(s, c) : s \in StringsOfLen(n - 1), c \in Alphabet}

Strings(n) == UNION {StringsOfLen(k) : k \in 0..n}

Min(a, b) == IF a < b THEN a ELSE b
Max(a, b) == IF a > b THEN a ELSE b

\* s[a:b] of Python for 0 <= a <= b <= len(s) (0-based, end exclusive)
Slice(s, a, b) == SubSeq(s, a + 1, b)

\* ---------------------------------------------------------------- sanitize
\* unicodedata.normalize("NFC", s), first half: canonical decomposition
RECURSIVE Decompose(_)
Decompose(s) ==
    IF s = <<>> THEN <<>>
    ELSE (IF Head(s) = "E" THEN <<"e", "m">> ELSE <<Head(s)>>) \o Decompose(Tail(s))

\* second half: canonical composition. A combining mark composes with the
\* starter right before it when the pair has a composite; a starter in
\* between (the surrogate is one) blocks it.
RECURSIVE ComposeInto(_, _)
ComposeInto(out, s) ==
    IF s = <<>> THEN out
    ELSE IF Head(s) = "m" /\ out # <<>> /\ out[Len(out)] = "e"
         THEN ComposeInto(SubSeq(out, 1, Len(out) - 1) \o <<"E">>, Tail(s))
         ELSE ComposeInto(Append(out, Head(s)), Tail(s))

NFC(s) == ComposeInto(<<>>, Decompose(s))

\* s.encode("utf-8", "ignore").decode("utf-8", "ignore"): surrogates are dropped
Encodable(c) == c # "x"

DropUnencodable(s) == SelectSeq(s, Encodable)

sanitize(s) == DropUnencodable(NFC(s))

\* -------------------------------------------------------------- chunk_text
\* " ".join(s.split()): runs of white space become one space, leading and
\* trailing white space goes
RECURSIVE CollapseInto(_, _)
CollapseInto(out, s) ==
    IF s = <<>> THEN out
    ELSE IF Head(s) = " " /\ (out = <<>> \/ out[Len(out)] = " ")
         THEN CollapseInto(out, Tail(s))
         ELSE CollapseInto(Append(out, Head(s)), Tail(s))

StripRight(s) ==
    IF s # <<>> /\ s[Len(s)] = " " THEN SubSeq(s, 1, Len(s) - 1) ELSE s

Collapse(s) == StripRight(CollapseInto(<<>>, s))

\* the locals of one call of chunk_text; ranges records the (start, end) of
\* every chunk appended, 0-based and end-exclusive as in the code
NoFrame ==
    [s |-> <<>>, size |-> 0, overlap |-> 0, start |-> 0,
     chunks |-> <<>>, ranges |-> <<>>]

\* lines 72-75
ChunkEnter(t, size, overlap) ==
    [s |-> sanitize(Collapse(t)), size |-> size, overlap |-> overlap,
     start |-> 0, chunks |-> <<>>, ranges |-> <<>>]

\* mutants of line 81: the next window starts one position late; the next
\* window starts where the last one ended
NextStartLate(end, overlap) == Max(0, end - overlap) + 1

NextStartNoOverlap(end, overlap) == end

\* line 81
NextStart(end, overlap) == Max(0, end - overlap)

\* one evaluation of the while test and, when it holds, one pass of the body
\* (lines 76-81); done says the loop is left
ChunkIter(fr) ==
    IF ~(fr.start < Len(fr.s)) THEN [fr |-> fr, done |-> TRUE]
    ELSE LET end == Min(fr.start + fr.size, Len(fr.s))
             app == [fr EXCEPT !.chunks = Append(@, Slice(fr.s, fr.start, end)),
                               !.ranges = Append(@, <<fr.start, end>>)]
         IN  IF end = Len(fr.s) THEN [fr |-> app, done |-> TRUE]
             ELSE [fr |-> [app EXCEPT !.start = NextStart(end, fr.overlap)],
                   done |-> FALSE]

VARIABLES
    sanIn, sanOnce, sanTwice, sanPc,   \* sanitize applied once and twice
    CHUNK_SIZE, CHUNK_OVERLAP,         \* lines 29-30, read once at import
    docs,                              \* what rglob finds under DOCS_DIR
    providerDim,                       \* length of the provider's vectors
    collExists, collDim, points,       \* the collection COLLECTION in Qdrant
    creations,                         \* number of recreate_collection calls
    task,                              \* the locals of each /ingest request
    running,                           \* request holding the event loop, 0 if none
    chat                               \* the locals of one /chat request

sanVars == <<sanIn, sanOnce, sanTwice, sanPc>>

ingestVars ==
    <<CHUNK_SIZE, CHUNK_OVERLAP, docs, providerDim, collExists, collDim,
      points, creations, task, running>>

vars == <<sanVars, ingestVars, chat>>

\* two /ingest requests served by one process
Requests == {1, 2}

\* the chunk loop of a configuration with overlap >= size never ends; the
\* model stops it after MaxChunks chunks
MaxChunks == MaxLen + 2

\* ------------------------------------------------------------- read_text
\* text of line 68, f"[PDF parse error: {e}]": ordinary characters and spaces
PdfErrorText == <<"q", " ", "q">>

Recognized == {"txt", "md", "pdf"}

\* lines 58-69. readable = FALSE is a file whose read (txt, md) or parse (pdf)
\* raises. The result says whether the call raised and the text it returned.
read_text(d) ==
    IF d.ext \in {"txt", "md"}
    THEN IF d.readable THEN [raised |-> FALSE, text |-> sanitize(d.text)]
         ELSE [raised |-> TRUE, text |-> <<>>]
    ELSE IF d.ext = "pdf"
    THEN [raised |-> FALSE,
          text |-> sanitize(IF d.readable THEN d.text ELSE PdfErrorText)]
    ELSE [raised |-> FALSE, text |-> sanitize(<<>>)]

\* lines 110-113
Files(dir) == SelectSeq(dir, LAMBDA d : d.ext \in Recognized)

\* --------------------------------------------------------------- requests
IdleTask ==
    [pc |-> "idle", files |-> <<>>, names |-> {}, dim |-> 0, i |-> 1,
     raw |-> <<>>, fr |-> NoFrame, chunks |-> <<>>, k |-> 1, pts |-> <<>>,
     total |-> 0, calls |-> 0, err |-> "none", resp |-> <<>>]

Point(r, i, k, ch) == [req |-> r, file |-> i, chunk_id |-> k - 1, text |-> ch]

Range(seq) == {seq[n] : n \in DOMAIN seq}

\* line 50: the names of the collections that exist
CollectionNames == IF collExists THEN {"docs"} ELSE {}

\* mutant of line 50: the listing is awaited, the event loop is released
LoopAfterListAwaited(r) == 0

\* line 50: QdrantClient is synchronous, the request keeps the event loop
\* while it lists the collections
LoopAfterList(r) == r

\* mutant of line 51: the collection is recreated whatever the listing says
CollectionAbsentAlways(names) == TRUE

\* line 51
CollectionAbsent(names) == "docs" \notin names

\* mutant of lines 129-138: every point is upserted as soon as it is built
IndexAfterEmbedEager(idx, pt) == idx \cup {pt}

\* lines 129-138: an embedded chunk goes to the local list, not to the index
IndexAfterEmbed(idx, pt) == idx

\* line 140
IndexAfterUpsert(idx, pts) == idx \cup Range(pts)

\* r can run: the event loop is free, or r holds it
CanRun(r) == running \in {0, r}

Set(r, t) == task' = [task EXCEPT ![r] = t]

Fail(r, why) ==
    /\ Set(r, [task[r] EXCEPT !.pc = "failed", !.err = why])
    /\ running' = 0

\* lines 109-119 up to the await of the dimension probe (line 49, line 41)
IngestStart(r) ==
    /\ CanRun(r)
    /\ task[r].pc = "idle"
    /\ LET files == Files(docs) IN
       IF files = <<>>
       THEN Set(r, [task[r] EXCEPT !.pc = "done", !.resp = <<0, 0>>])
       ELSE Set(r, [task[r] EXCEPT !.pc = "probe_wait", !.files = files,
                                   !.calls = @ + 1])
    /\ running' = 0
    /\ UNCHANGED <<sanVars, CHUNK_SIZE, CHUNK_OVERLAP, docs, providerDim,
                   collExists, collDim, points, creations, chat>>

\* the probe's response arrives: lines 45-46, 49 and 50
EnsureList(r) ==
    /\ CanRun(r)
    /\ task[r].pc = "probe_wait"
    /\ \E embed \in {"ok", "error"} :
          IF embed = "error" THEN Fail(r, "embed")
          ELSE /\ Set(r, [task[r] EXCEPT !.pc = "ensure_check",
                                         !.dim = providerDim,
                                         !.names = CollectionNames])
               /\ running' = LoopAfterList(r)
    /\ UNCHANGED <<sanVars, CHUNK_SIZE, CHUNK_OVERLAP, docs, providerDim,
                   collExists, collDim, points, creations, chat>>

\* lines 51-56; recreate_collection drops the collection and its points if
\* it exists and creates it empty
EnsureCreate(r) ==
    /\ CanRun(r)
    /\ task[r].pc = "ensure_check"
    /\ \E index \in {"ok", "error"} :
          IF ~CollectionAbsent(task[r].names)
          THEN /\ Set(r, [task[r] EXCEPT !.pc = "next_file"])
               /\ running' = r
               /\ UNCHANGED <<collExists, collDim, points, creations>>
          ELSE IF index = "error"
          THEN /\ Fail(r, "index")
               /\ UNCHANGED <<collExists, collDim, points, creations>>
          ELSE /\ collExists' = TRUE
               /\ collDim' = task[r].dim
               /\ points' = {}
               /\ creations' = creations + 1
               /\ Set(r, [task[r] EXCEPT !.pc = "next_file"])
               /\ running' = r
    /\ UNCHANGED <<sanVars, CHUNK_SIZE, CHUNK_OVERLAP, docs, providerDim, chat>>

\* lines 122-125, and line 143 when the files are exhausted
NextFile(r) ==
    /\ CanRun(r)
    /\ task[r].pc = "next_file"
    /\ LET t == task[r] IN
       IF t.i > Len(t.files)
       THEN /\ Set(r, [t EXCEPT !.pc = "done",
                                !.resp = <<Len(t.files), t.total>>])
            /\ running' = 0
       ELSE LET got == read_text(t.files[t.i]) IN
            IF got.raised THEN Fail(r, "read")
            ELSE IF got.text = <<>>
            THEN /\ Set(r, [t EXCEPT !.i = @ + 1])
                 /\ running' = r
            ELSE /\ Set(r, [t EXCEPT !.pc = "chunk_call", !.raw = got.text])
                 /\ running' = r
    /\ UNCHANGED <<sanVars, CHUNK_SIZE, CHUNK_OVERLAP, docs, providerDim,
                   collExists, collDim, points, creations, chat>>

\* line 126 calls chunk_text with the configured size and overlap; lines 72-75
ChunkCall(r) ==
    /\ CanRun(r)
    /\ task[r].pc = "chunk_call"
    /\ LET fr == ChunkEnter(task[r].raw, CHUNK_SIZE, CHUNK_OVERLAP) IN
       Set(r, [task[r] EXCEPT !.fr = fr,
                  !.pc = IF fr.s = <<>> THEN "chunk_return" ELSE "chunk_loop"])
    /\ running' = r
    /\ UNCHANGED <<sanVars, CHUNK_SIZE, CHUNK_OVERLAP, docs, providerDim,
                   collExists, collDim, points, creations, chat>>

\* lines 76-81, one iteration
ChunkLoop(r) ==
    /\ CanRun(r)
    /\ task[r].pc = "chunk_loop"
    /\ Len(task[r].fr.chunks) < MaxChunks
    /\ LET it == ChunkIter(task[r].fr) IN
       Set(r, [task[r] EXCEPT !.fr = it.fr,
                  !.pc = IF it.done THEN "chunk_return" ELSE "chunk_loop"])
    /\ running' = r
    /\ UNCHANGED <<sanVars, CHUNK_SIZE, CHUNK_OVERLAP, docs, providerDim,
                   collExists, collDim, points, creations, chat>>

\* line 82, lines 127-129 up to the await of the first chunk's embedding, or
\* line 139 when there is no chunk
ChunkReturn(r) ==
    /\ CanRun(r)
    /\ task[r].pc = "chunk_return"
    /\ LET t == task[r] IN
       IF t.fr.chunks = <<>>
       THEN /\ Set(r, [t EXCEPT !.pc = "next_file", !.chunks = <<>>,
                                !.pts = <<>>, !.i = @ + 1])
            /\ running' = r
       ELSE /\ Set(r, [t EXCEPT !.pc = "embed_wait", !.chunks = t.fr.chunks,
                                !.pts = <<>>, !.k = 1, !.calls = @ + 1])
            /\ running' = 0
    /\ UNCHANGED <<sanVars, CHUNK_SIZE, CHUNK_OVERLAP, docs, providerDim,
                   collExists, collDim, points, creations, chat>>

\* the embedding of chunk k arrives: lines 45-46, 130-138, then the next
\* chunk's embedding is awaited (line 129) or the loop is left for line 139
EmbedDone(r) ==
    /\ CanRun(r)
    /\ task[r].pc = "embed_wait"
    /\ \E embed \in {"ok", "error"} :
          IF embed = "error"
          THEN Fail(r, "embed") /\ points' = points
          ELSE LET t == task[r]
                   pt == Point(r, t.i, t.k, t.chunks[t.k])
               IN  /\ points' = IndexAfterEmbed(points, pt)
                   /\ IF t.k < Len(t.chunks)
                      THEN /\ Set(r, [t EXCEPT !.pts = Append(@, pt),
                                               !.k = @ + 1, !.calls = @ + 1])
                           /\ running' = 0
                      ELSE /\ Set(r, [t EXCEPT !.pts = Append(@, pt),
                                               !.pc = "upsert"])
                           /\ running' = r
    /\ UNCHANGED <<sanVars, CHUNK_SIZE, CHUNK_OVERLAP, docs, providerDim,
                   collExists, collDim, creations, chat>>

\* lines 139-141
Upsert(r) ==
    /\ CanRun(r)
    /\ task[r].pc = "upsert"
    /\ LET t == task[r] IN
       \E index \in {"ok", "error"} :
          IF index = "error"
          THEN /\ Set(r, [t EXCEPT !.pc = "failed", !.err = "index",
                                   !.calls = @ + 1])
               /\ running' = 0
               /\ points' = points
          ELSE /\ points' = IndexAfterUpsert(points, t.pts)
               /\ Set(r, [t EXCEPT !.pc = "next_file", !.total = @ + Len(t.pts),
                                   !.i = @ + 1, !.calls = @ + 1])
               /\ running' = r
    /\ UNCHANGED <<sanVars, CHUNK_SIZE, CHUNK_OVERLAP, docs, providerDim,
                   collExists, collDim, creations, chat>>

SanOff == sanIn = <<>> /\ sanOnce = <<>> /\ sanTwice = <<>> /\ sanPc = "off"

IdleChat ==
    [pc |-> "off", question |-> <<>>, top_k |-> 0, user_q |-> <<>>,
     hits |-> <<>>, j |-> 1, contexts |-> <<>>, sources |-> <<>>,
     genCalls |-> 0, err |-> "none", resp |-> <<>>]

ChatOff == chat = IdleChat

\* the files rglob can find: a text of three letters, a text of white space
\* only, an unreadable text, a PDF whose text is one unencodable code point, a
\* PDF that does not parse, and a file of another type
DocChoices ==
    {[ext |-> "txt", readable |-> TRUE, text |-> <<"q", "q", "q">>],
     [ext |-> "md", readable |-> TRUE, text |-> <<" ">>],
     [ext |-> "txt", readable |-> FALSE, text |-> <<>>],
     [ext |-> "pdf", readable |-> TRUE, text |-> <<"x">>],
     [ext |-> "pdf", readable |-> FALSE, text |-> <<>>],
     [ext |-> "png", readable |-> TRUE, text |-> <<>>]}

RECURSIVE DirsOfLen(_)
DirsOfLen(n) ==
    IF n = 0 THEN {<<>>}
    ELSE {Append(s, d) : s \in DirsOfLen(n - 1), d \in DocChoices}

Init ==
    /\ SanOff
    /\ ChatOff
    /\ CHUNK_SIZE \in 1..MaxSize
    /\ CHUNK_OVERLAP \in 0..MaxOverlap
    /\ docs \in UNION {DirsOfLen(n) : n \in 0..MaxFiles}
    /\ providerDim \in 1..MaxDim
    /\ collExists = FALSE
    /\ collDim = 0
    /\ points = {}
    /\ creations = 0
    /\ task = [r \in Requests |-> IdleTask]
    /\ running = 0

Next ==
    \E r \in Requests :
        \/ IngestStart(r)
        \/ EnsureList(r)
        \/ EnsureCreate(r)
        \/ NextFile(r)
        \/ ChunkCall(r)
        \/ ChunkLoop(r)
        \/ ChunkReturn(r)
        \/ EmbedDone(r)
        \/ Upsert(r)

Spec == Init /\ [][Next]_vars

IngestOff ==
    /\ CHUNK_SIZE = 1
    /\ CHUNK_OVERLAP = 0
    /\ docs = <<>>
    /\ providerDim = 1
    /\ collExists = FALSE
    /\ collDim = 0
    /\ points = {}
    /\ creations = 0
    /\ task = [r \in Requests |-> IdleTask]
    /\ running = 0

\* --------------------------------------------------- sanitize, as a function
InitSanitize ==
    /\ sanIn \in Strings(MaxLen)
    /\ sanOnce = <<>>
    /\ sanTwice = <<>>
    /\ sanPc = "input"
    /\ IngestOff
    /\ ChatOff

SanitizeOnce ==
    /\ sanPc = "input"
    /\ sanOnce' = sanitize(sanIn)
    /\ sanPc' = "once"
    /\ UNCHANGED <<sanIn, sanTwice, ingestVars, chat>>

SanitizeAgain ==
    /\ sanPc = "once"
    /\ sanTwice' = sanitize(sanOnce)
    /\ sanPc' = "twice"
    /\ UNCHANGED <<sanIn, sanOnce, ingestVars, chat>>

NextSanitize == SanitizeOnce \/ SanitizeAgain

SpecSanitize == InitSanitize /\ [][NextSanitize]_vars

\* C1: sanitize is idempotent: sanitizing an already sanitized string gives
\* the same string, for every input (also one with an unencodable code point
\* between a base letter and a combining mark).
C1_SanitizeIdempotent == sanPc = "twice" => sanTwice = sanOnce

\* ------------------------------------------------- chunk_text, as a function
\* request 1 is at line 126 with any text and any configured size and overlap
InitChunk ==
    /\ SanOff
    /\ ChatOff
    /\ CHUNK_SIZE \in 1..MaxSize
    /\ CHUNK_OVERLAP \in 0..MaxOverlap
    /\ docs = <<>>
    /\ providerDim = 1
    /\ collExists = TRUE
    /\ collDim = 1
    /\ points = {}
    /\ creations = 1
    /\ \E t \in Strings(MaxLen) :
          task = [r \in Requests |->
                    IF r = 1 THEN [IdleTask EXCEPT !.pc = "chunk_call", !.raw = t]
                    ELSE IdleTask]
    /\ running = 1

NextChunk == ChunkCall(1) \/ ChunkLoop(1) \/ ChunkReturn(1)

SpecChunk == InitChunk /\ [][NextChunk]_vars

\* C2: for every text and every size > overlap >= 0, chunk_text returns
\* finitely many chunks, each of length <= size, each the slice of the string
\* of line 72 (the white-space-collapsed, sanitized text) over its range, and
\* the ranges together cover every position 0..len-1 of that string.
ValidConfig(fr) == fr.size > fr.overlap /\ fr.overlap >= 0

Covered(fr) ==
    UNION {fr.ranges[n][1] .. (fr.ranges[n][2] - 1) : n \in DOMAIN fr.ranges}

C2_ChunksCoverText ==
    LET fr == task[1].fr IN
    (task[1].pc = "chunk_return" /\ ValidConfig(fr)) =>
        /\ fr.s = sanitize(Collapse(task[1].raw))
        /\ (fr.size - fr.overlap) * Len(fr.chunks)
              < Len(fr.s) + (fr.size - fr.overlap)
        /\ Len(fr.chunks) = Len(fr.ranges)
        /\ \A n \in DOMAIN fr.chunks :
              /\ Len(fr.chunks[n]) <= fr.size
              /\ fr.chunks[n] = Slice(fr.s, fr.ranges[n][1], fr.ranges[n][2])
        /\ Covered(fr) = 0 .. (Len(fr.s) - 1)

C2_Witness ==
    /\ task[1].pc = "chunk_return"
    /\ ValidConfig(task[1].fr)
    /\ task[1].fr.overlap = 1
    /\ Len(task[1].fr.chunks) = 3

\* C3: for every text and every size > overlap >= 0, every chunk after the
\* first starts exactly `overlap` positions before the end of the chunk
\* before it, and the two share exactly `overlap` characters (this holds of
\* the final pair too).
C3_AdjacentOverlap ==
    LET fr == task[1].fr IN
    (task[1].pc = "chunk_return" /\ ValidConfig(fr)) =>
        \A n \in 1 .. (Len(fr.ranges) - 1) :
            /\ fr.ranges[n + 1][1] = fr.ranges[n][2] - fr.overlap
            /\ Min(fr.ranges[n][2], fr.ranges[n + 1][2]) - fr.ranges[n + 1][1]
                  = fr.overlap
            /\ Slice(fr.s, fr.ranges[n][2] - fr.overlap, fr.ranges[n][2])
                  = SubSeq(fr.chunks[n + 1], 1, fr.overlap)

C3_Witness ==
    /\ task[1].pc = "chunk_return"
    /\ task[1].fr.size = 2
    /\ task[1].fr.overlap = 1
    /\ Len(task[1].fr.chunks) = 3
    /\ task[1].fr.s = <<"q", "E", "e", "q">>

\* ------------------------------------------------------------------ ingest
ExtractionFails(d) == d.ext \in Recognized /\ ~d.readable

PointsOf(r, i) == {p \in points : p.req = r /\ p.file = i}

\* C4: a file whose text extraction fails (read or parse failure) yields
\* empty text, is skipped, has no point in the index and does not make the
\* ingest request fail.
C4_FailedExtractionSkipped ==
    \A r \in Requests :
        /\ task[r].err # "read"
        /\ \A i \in DOMAIN Files(docs) :
              ExtractionFails(Files(docs)[i]) => PointsOf(r, i) = {}

\* C6: collection bootstrap is idempotent: the collection is created only by
\* a call that finds it absent, at most once, with the provider's
\* dimensionality; once it is present no call creates or recreates it, and
\* its dimensionality and (over a bootstrap call) its points stay as they are.
BootstrapStep ==
    \E r \in Requests :
        task[r].pc \in {"probe_wait", "ensure_check"} /\ task'[r] # task[r]

C6_BootstrapIdempotent ==
    /\ [](creations <= 1 /\ (collExists <=> creations = 1)
                         /\ (collExists => collDim = providerDim))
    /\ [][/\ creations' \in {creations, creations + 1}
          /\ (creations' # creations) => (~collExists /\ BootstrapStep)
          /\ collExists =>
                (collExists' /\ creations' = creations /\ collDim' = collDim)
          /\ (collExists /\ BootstrapStep) => points' = points]_vars

C6_Witness ==
    /\ creations = 1
    /\ points # {}
    /\ \A r \in Requests : task[r].pc = "done" /\ task[r].total > 0

\* C8: ingestion commits per file, all or nothing, with no rollback: in
\* every state each file of each request has all of its chunks' points in
\* the index or none; a failure leaves the index as it is, points in the
\* index stay there, and a failed request makes no further call.
ExpectedChunks(d) ==
    LET got == read_text(d)
        s == sanitize(Collapse(got.text))
        step == CHUNK_SIZE - CHUNK_OVERLAP
    IN  IF got.raised \/ s = <<>> THEN 0
        ELSE IF Len(s) <= CHUNK_SIZE THEN 1
        ELSE IF step <= 0 THEN 0
        ELSE 1 + ((Len(s) - CHUNK_SIZE + step - 1) \div step)

AllOrNothing ==
    \A r \in Requests : \A i \in DOMAIN Files(docs) :
        LET n == ExpectedChunks(Files(docs)[i]) IN
        \/ PointsOf(r, i) = {}
        \/ /\ Cardinality(PointsOf(r, i)) = n
           /\ {p.chunk_id : p \in PointsOf(r, i)} = 0 .. (n - 1)

C8_PerFileAllOrNothing ==
    /\ []AllOrNothing
    /\ [][/\ \A p \in points : p \in points'
          /\ \A r \in Requests :
                /\ (task[r].pc # "failed" /\ task'[r].pc = "failed")
                      => points' = points
                /\ task[r].pc = "failed" => task'[r] = task[r]]_vars

C8_Witness ==
    \E r \in Requests :
        /\ task[r].pc = "failed"
        /\ task[r].err = "embed"
        /\ task[r].i = 2
        /\ task[r].pts # <<>>
        /\ PointsOf(r, 1) # {}
        /\ PointsOf(r, 2) = {}

\* C9: ingest never runs the chunking loop with overlap >= size, so the
\* loop's offset strictly advances on every iteration.
C9_CallerEnforcesSizeGtOverlap ==
    \A r \in Requests :
        task[r].pc = "chunk_loop" => task[r].fr.size > task[r].fr.overlap

\* C10: under any interleaving of concurrent ingest requests that suspend
\* only at their awaited embedding calls, no request's step comes between
\* another's listing of the collections and its creation, the collection is
\* created at most once, and no creation removes points already upserted.
C10_NoRacingBootstrap ==
    /\ [](/\ creations <= 1
          /\ \A r \in Requests :
                task[r].pc = "ensure_check" =>
                    /\ running = r
                    /\ task[r].names = CollectionNames)
    /\ [][(creations' # creations) => (points = {} /\ ~collExists)]_vars

C10_Witness ==
    /\ creations = 1
    /\ task[1].pc = "embed_wait"
    /\ PointsOf(2, 1) # {}
    /\ task[2].pc = "embed_wait"
    /\ task[2].i = 2

\* -------------------------------------------------------------------- chat
\* line 188
FallbackAnswer == <<"q", " ", "q">>

\* str.strip()
RECURSIVE StripLeft(_)
StripLeft(s) == IF s # <<>> /\ Head(s) = " " THEN StripLeft(Tail(s)) ELSE s

RECURSIVE StripRightAll(_)
StripRightAll(s) ==
    IF s # <<>> /\ s[Len(s)] = " " THEN StripRightAll(SubSeq(s, 1, Len(s) - 1))
    ELSE s

Strip(s) == StripRightAll(StripLeft(s))

\* what a stored payload's text can be: missing or empty, one unencodable
\* code point, or a letter
HitTexts == {<<>>, <<"x">>, <<"q">>}

Hits == [text : HitTexts, chunk_id : 0..1, score : 1..MaxScore]

\* qc.search returns at most `limit` hits in descending order of score
CanFollow(s, h) == s = <<>> \/ s[Len(s)].score >= h.score

RECURSIVE SearchResults(_)
SearchResults(limit) ==
    IF limit = 0 THEN {<<>>}
    ELSE LET shorter == SearchResults(limit - 1)
             longest == {s \in shorter : Len(s) = limit - 1}
         IN  shorter \cup
             {Append(p[1], p[2]) :
                 p \in {q \in longest \X Hits : CanFollow(q[1], q[2])}}

\* lines 176-177
HitText(h) == sanitize(h.text)

\* line 178: a hit is kept when its sanitized text is not empty
Keep(txt) == txt # <<>>

\* lines 181-185 (the path is carried along like the chunk_id)
Source(h) == [chunk_id |-> h.chunk_id, score |-> h.score]

\* mutant of line 181: the source is put in front
PrependSource(sources, src) == <<src>> \o sources

AppendSource(sources, src) == Append(sources, src)

\* mutant of line 187: no short-circuit
NoContextNever(contexts) == FALSE

\* line 187
NoContext(contexts) == contexts = <<>>

InitChat ==
    /\ SanOff
    /\ IngestOff
    /\ \E q \in {<<"q">>, <<"e", "x", "m">>}, k \in 0..MaxHits :
          chat = [IdleChat EXCEPT !.pc = "start", !.question = q, !.top_k = k]

\* lines 149-155 up to the await of the question's embedding
ChatStart ==
    /\ chat.pc = "start"
    /\ chat' = [chat EXCEPT !.pc = "embed_wait",
                            !.user_q = sanitize(chat.question)]
    /\ UNCHANGED <<sanVars, ingestVars>>

\* the embedding arrives (lines 45-46) and the search runs (lines 158-174)
ChatSearch ==
    /\ chat.pc = "embed_wait"
    /\ \E embed \in {"ok", "error"}, index \in {"ok", "error"} :
          IF embed = "error"
          THEN chat' = [chat EXCEPT !.pc = "failed", !.err = "embed"]
          ELSE IF index = "error"
          THEN chat' = [chat EXCEPT !.pc = "failed", !.err = "index"]
          ELSE \E hits \in SearchResults(chat.top_k) :
                  chat' = [chat EXCEPT !.pc = "filter", !.hits = hits, !.j = 1,
                                       !.contexts = <<>>, !.sources = <<>>]
    /\ UNCHANGED <<sanVars, ingestVars>>

\* lines 175-185, one iteration
ChatFilter ==
    /\ chat.pc = "filter"
    /\ IF chat.j > Len(chat.hits)
       THEN chat' = [chat EXCEPT !.pc = "decide"]
       ELSE LET h == chat.hits[chat.j]
                txt == HitText(h)
            IN  IF ~Keep(txt)
                THEN chat' = [chat EXCEPT !.j = @ + 1]
                ELSE chat' = [chat EXCEPT !.j = @ + 1,
                                 !.contexts = Append(@, txt),
                                 !.sources = AppendSource(@, Source(h))]
    /\ UNCHANGED <<sanVars, ingestVars>>

\* lines 187-205: the fallback, or the prompt and the await of the generation
ChatDecide ==
    /\ chat.pc = "decide"
    /\ IF NoContext(chat.contexts)
       THEN chat' = [chat EXCEPT !.pc = "done",
                        !.resp = [answer |-> FallbackAnswer, sources |-> <<>>]]
       ELSE chat' = [chat EXCEPT !.pc = "gen_wait", !.genCalls = @ + 1]
    /\ UNCHANGED <<sanVars, ingestVars>>

\* lines 206-208
ChatAnswer ==
    /\ chat.pc = "gen_wait"
    /\ \E gen \in {"ok", "error"},
          text \in {<<>>, <<" ", "q", " ">>, <<"e", "x", "m">>} :
          IF gen = "error"
          THEN chat' = [chat EXCEPT !.pc = "failed", !.err = "generate"]
          ELSE chat' = [chat EXCEPT !.pc = "done",
                           !.resp = [answer |-> Strip(sanitize(text)),
                                     sources |-> chat.sources]]
    /\ UNCHANGED <<sanVars, ingestVars>>

NextChat == ChatStart \/ ChatSearch \/ ChatFilter \/ ChatDecide \/ ChatAnswer

SpecChat == InitChat /\ [][NextChat]_vars

Survivors(hits) == SelectSeq(hits, LAMBDA h : sanitize(h.text) # <<>>)

Searched ==
    \/ chat.pc \in {"filter", "decide", "gen_wait", "done"}
    \/ chat.pc = "failed" /\ chat.err = "generate"

\* C5: when no search hit survives (no hit, or every hit's text is empty
\* after sanitization) the response is the fixed fallback answer with no
\* sources and no generation call is made in the request; a generation call
\* is made only after at least one hit survived.
C5_FallbackWithoutGeneration ==
    /\ (Searched /\ Survivors(chat.hits) = <<>>) =>
          /\ chat.genCalls = 0
          /\ chat.pc # "failed"
          /\ chat.pc = "done" =>
                chat.resp = [answer |-> FallbackAnswer, sources |-> <<>>]
    /\ chat.genCalls > 0 => (Searched /\ Survivors(chat.hits) # <<>>)
    /\ chat.genCalls <= 1

C5_Witness ==
    /\ chat.pc = "done"
    /\ Len(chat.hits) = 2
    /\ Survivors(chat.hits) = <<>>
    /\ chat.resp = [answer |-> FallbackAnswer, sources |-> <<>>]

\* C7: the sources of a chat response are exactly the search hits whose
\* sanitized text is not empty, in the order of the search result, each once;
\* their scores are non-increasing.
SourcesOf(hits) == [n \in 1 .. Len(hits) |-> Source(hits[n])]

C7_SourcesAreSurvivorsInOrder ==
    /\ chat.pc \in {"decide", "gen_wait"} =>
          chat.sources = SourcesOf(Survivors(chat.hits))
    /\ chat.pc = "done" =>
          /\ chat.resp.sources = SourcesOf(Survivors(chat.hits))
          /\ \A n \in 1 .. (Len(chat.resp.sources) - 1) :
                chat.resp.sources[n].score >= chat.resp.sources[n + 1].score

C7_Witness ==
    /\ chat.pc = "done"
    /\ Len(chat.hits) = 3
    /\ Len(chat.resp.sources) = 2
    /\ chat.resp.sources[1].score > chat.resp.sources[2].score
    /\ HitText(chat.hits[2]) = <<>>

====
